---- MODULE Spec2Model ----
(***************************************************************************)
(* fix_super_calls.py: a batch rewrite of Java constructor calls.          *)
(*                                                                         *)
(* For every path of a fixed list the script checks that the file exists,  *)
(* reads it, applies two regular-expression substitutions to its text and  *)
(* writes the text back when it changed.  Text is modelled as a sequence   *)
(* of one-character strings, the two regular expressions as matchers over  *)
(* such sequences, the file system as a map from paths to texts.           *)
(***************************************************************************)
EXTENDS Naturals, Sequences, FiniteSets, TLC

VARIABLES
    exists,            \* the paths os.path.exists answers True for
    disk,              \* path -> the text of the file
    idx,               \* position of the for loop in files (1-based)
    pc,                \* where the script is: loop, rule1, rule2, compare, written,
                       \* counted, done, crashed
    content,           \* the script's variable content
    original_content,  \* the script's variable original_content
    fixed_count,       \* the script's variable fixed_count
    output,            \* the lines printed so far, in order
    reads,             \* path -> number of times the file was opened and read, this run
    writes,            \* path -> number of times the file was opened for writing, this run
    start,             \* path -> the text of the file when this run began
    run                \* 1: the first invocation of the script, 2: the second

vars == <<exists, disk, idx, pc, content, original_content, fixed_count,
          output, reads, writes, start, run>>

(***************************************************************************)
(* Bounds of the model.                                                    *)
(***************************************************************************)
\* Number of entries of the path list (30 in the script).
NumFiles == 3
\* Largest number of fragments a generated file text is built from.
MaxFrags == 3
\* Largest number of fragments put before, and after, a call in a file text.
MaxContext == 1

(***************************************************************************)
(* Characters and literal texts.                                           *)
(***************************************************************************)
Digits == {"0", "1", "2", "3", "4", "5", "6", "7", "8", "9"}

\* The character class [0-9.] of both patterns.
NumChars == Digits \cup {"."}

\* The characters \s matches in a str pattern, the 29 characters str.isspace
\* is true of.  In the first row: space, tab, line feed, carriage return, form
\* feed.  In the second, written as themselves: vertical tab U+000B, the
\* separators U+001C to U+001F, next line U+0085, no-break space U+00A0 and
\* ogham space mark U+1680.  In the others, named by their code points: the
\* spaces U+2000 to U+200A, line and paragraph separator, narrow no-break
\* space, medium mathematical space and ideographic space.
Whitespace ==
    { " ", "\t", "\n", "\r", "\f",
      "", "", "", "", "", "", " ", " ",
      "U+2000", "U+2001", "U+2002", "U+2003", "U+2004", "U+2005", "U+2006",
      "U+2007", "U+2008", "U+2009", "U+200A",
      "U+2028", "U+2029", "U+202F", "U+205F", "U+3000" }

\* The vertical tab, U+000B.
VerticalTab == ""

\* The literal  super(  both patterns begin with.
SuperOpen == <<"s", "u", "p", "e", "r", "(">>

\* The literal  );  both patterns end with.
CloseStmt == <<")", ";">>

TrueLit == <<"t", "r", "u", "e">>

FalseLit == <<"f", "a", "l", "s", "e">>

\* The text  super();  the replacements begin with.
BareSuper == <<"s", "u", "p", "e", "r", "(", ")", ";">>

\* The line break and eight spaces between the statements of a replacement.
Indent == <<"\n", " ", " ", " ", " ", " ", " ", " ", " ">>

SetWeightOpen == <<"s", "e", "t", "W", "e", "i", "g", "h", "t", "(">>

SetEnabledOpen == <<"s", "e", "t", "E", "n", "a", "b", "l", "e", "d", "(">>

(***************************************************************************)
(* Matching.                                                               *)
(***************************************************************************)
\* The (non-empty) literal lit occurs in s at position i.
HasAt(s, i, lit) ==
    /\ i >= 1
    /\ i + Len(lit) - 1 <= Len(s)
    /\ s[i] = lit[1]
    /\ SubSeq(s, i, i + Len(lit) - 1) = lit

\* The position after the longest run of characters of class that starts at
\* i: a greedy  [class]*  .  Neither pattern ever gives a character of a run
\* back: what follows a run in the patterns is never of the run's class.
RECURSIVE RunEnd(_, _, _)
RunEnd(s, i, class) ==
    IF i <= Len(s) /\ s[i] \in class THEN RunEnd(s, i + 1, class) ELSE i

\* The position after (true|false) matched at i, 0 when neither is there.
BoolEnd(s, i) ==
    IF HasAt(s, i, TrueLit) THEN i + Len(TrueLit)
    ELSE IF HasAt(s, i, FalseLit) THEN i + Len(FalseLit)
    ELSE 0

\* r'super\(([0-9.]+),\s*(true|false)\s*\);' tried at position i of s: the
\* position after the match, 0 when there is none.
TwoParamsEnd(s, i) ==
    IF ~HasAt(s, i, SuperOpen) THEN 0
    ELSE LET a == i + Len(SuperOpen)
             b == RunEnd(s, a, NumChars)
         IN  IF b = a \/ ~HasAt(s, b, <<",">>) THEN 0
             ELSE LET c == RunEnd(s, b + 1, Whitespace)
                      d == BoolEnd(s, c)
                  IN  IF d = 0 THEN 0
                      ELSE LET e == RunEnd(s, d, Whitespace)
                           IN  IF HasAt(s, e, CloseStmt)
                               THEN e + Len(CloseStmt) ELSE 0

\* match.group(1) of a match of either pattern at i: the weight.
WeightGroup(s, i) ==
    SubSeq(s, i + Len(SuperOpen), RunEnd(s, i + Len(SuperOpen), NumChars) - 1)

\* match.group(2) of a match of the two-parameter pattern at i.
EnabledGroup(s, i) ==
    LET c == RunEnd(s, RunEnd(s, i + Len(SuperOpen), NumChars) + 1, Whitespace)
    IN  SubSeq(s, c, BoolEnd(s, c) - 1)

\* OneParamEnd with  [0-9.]*  for  [0-9.]+  : the argument may be empty.
OneParamEndStar(s, i) ==
    IF ~HasAt(s, i, SuperOpen) THEN 0
    ELSE LET a == i + Len(SuperOpen)
             b == RunEnd(s, a, NumChars)
         IN  IF HasAt(s, b, CloseStmt) THEN b + Len(CloseStmt) ELSE 0

\* r'super\(([0-9.]+)\);' tried at position i of s: the position after the
\* match, 0 when there is none.
OneParamEnd(s, i) ==
    IF ~HasAt(s, i, SuperOpen) THEN 0
    ELSE LET a == i + Len(SuperOpen)
             b == RunEnd(s, a, NumChars)
         IN  IF b > a /\ HasAt(s, b, CloseStmt) THEN b + Len(CloseStmt) ELSE 0

(***************************************************************************)
(* The two substitutions.                                                  *)
(***************************************************************************)
\* replace_two_params with the two setter calls in the other order.
replace_two_params_swapped(weight, enabled) ==
    BareSuper \o Indent \o SetEnabledOpen \o enabled \o CloseStmt
              \o Indent \o SetWeightOpen \o weight \o CloseStmt

replace_two_params(weight, enabled) ==
    BareSuper \o Indent \o SetWeightOpen \o weight \o CloseStmt
              \o Indent \o SetEnabledOpen \o enabled \o CloseStmt

\* replace_one_param that leaves the argument in the call.
replace_one_param_keeps_arg(weight) ==
    SuperOpen \o weight \o CloseStmt \o Indent \o SetWeightOpen \o weight \o CloseStmt

\* replace_one_param with the body of replace_two_params, enabled set.
replace_one_param_enables(weight) ==
    BareSuper \o Indent \o SetWeightOpen \o weight \o CloseStmt
              \o Indent \o SetEnabledOpen \o TrueLit \o CloseStmt

replace_one_param(weight) ==
    BareSuper \o Indent \o SetWeightOpen \o weight \o CloseStmt

\* The least member of a set of positions, 0 for the empty set.
First(positions) ==
    IF positions = {} THEN 0
    ELSE CHOOSE j \in positions : \A k \in positions : j <= k

\* The search of re.sub for the next match at or after position i: the
\* leftmost position a match starts at, 0 when there is none.
NextTwoParams(s, i) == First({j \in i..Len(s) : TwoParamsEnd(s, j) > 0})

NextOneParam(s, i) == First({j \in i..Len(s) : OneParamEnd(s, j) > 0})

\* re.sub of the two-parameter pattern over s from position i on: the text
\* up to the leftmost match is copied, the match is replaced by what the
\* callback returns, and the search goes on after the match.
RECURSIVE SubTwoParams(_, _)
SubTwoParams(s, i) ==
    LET j == NextTwoParams(s, i)
    IN  IF j = 0 THEN SubSeq(s, i, Len(s))
        ELSE SubSeq(s, i, j - 1)
                 \o replace_two_params(WeightGroup(s, j), EnabledGroup(s, j))
                 \o SubTwoParams(s, TwoParamsEnd(s, j))

\* re.sub of the one-parameter pattern over s from position i on.
RECURSIVE SubOneParam(_, _)
SubOneParam(s, i) ==
    LET j == NextOneParam(s, i)
    IN  IF j = 0 THEN SubSeq(s, i, Len(s))
        ELSE SubSeq(s, i, j - 1)
                 \o replace_one_param(WeightGroup(s, j))
                 \o SubOneParam(s, OneParamEnd(s, j))

\* Rule 1 then rule 2: what one iteration of the loop makes of a text.
Transform(s) == SubOneParam(SubTwoParams(s, 1), 1)

\* What f.read() returns of the text s of a file opened in text mode with
\* the default newline=None, from position i on: every  \r\n  and every
\* other  \r  is read as  \n  .
RECURSIVE UniversalNewlines(_, _)
UniversalNewlines(s, i) ==
    LET j == First({k \in i..Len(s) : s[k] = "\r"})
    IN  IF j = 0 THEN SubSeq(s, i, Len(s))
        ELSE SubSeq(s, i, j - 1) \o <<"\n">>
                 \o UniversalNewlines(s, IF j < Len(s) /\ s[j + 1] = "\n"
                                         THEN j + 2 ELSE j + 1)

\* The text f.read() returns of a file that holds s.
ReadText(s) == UniversalNewlines(s, 1)

(***************************************************************************)
(* The path list and the texts the files may hold.                         *)
(***************************************************************************)
\* The list files: NumFiles distinct paths, a path being named by its place.
files == [i \in 1..NumFiles |-> i]

Paths == {files[i] : i \in 1..NumFiles}

\* The pieces generated texts are made of: the parts of the two call shapes
\* (the second argument once after a lone carriage return), a second decimal
\* point, a sign, and a letter that is both an exponent mark and an
\* identifier character.
Fragments ==
    { SuperOpen, <<"1">>, <<".">>, CloseStmt,
      <<",">> \o TrueLit, <<",", "\r">> \o FalseLit,
      <<"e">>, <<"-">> }

\* Every concatenation of at most n fragments.
RECURSIVE FragTexts(_)
FragTexts(n) ==
    IF n = 0 THEN {<<>>}
    ELSE LET shorter == FragTexts(n - 1)
         IN  shorter \cup {t \o f : t \in shorter, f \in Fragments}

\* super(1, false);  super(2.5,true);  super(1);  super();  and a call with
\* a vertical tab after the comma, on a line that ends with  \r\n  .
SampleContents ==
    { SuperOpen \o <<"1", ",", " ">> \o FalseLit \o CloseStmt,
      SuperOpen \o <<"2", ".", "5", ",">> \o TrueLit \o CloseStmt,
      SuperOpen \o <<"1">> \o CloseStmt,
      BareSuper,
      SuperOpen \o <<"3", ",", VerticalTab>> \o TrueLit \o CloseStmt
          \o <<"\r", "\n">> }

\* A text with a call of each shape, a lone carriage return between them.
TwoCalls ==
    SuperOpen \o <<"1", ",", " ">> \o FalseLit \o CloseStmt \o <<"\r">>
        \o SuperOpen \o <<"2">> \o CloseStmt

\* The calls put between other fragments:  super(1, false);  and  super(1);
EmbeddedCalls ==
    { SuperOpen \o <<"1", ",", " ">> \o FalseLit \o CloseStmt,
      SuperOpen \o <<"1">> \o CloseStmt }

\* The texts of at most MaxFrags fragments, the sample texts, the text with
\* two calls, and the embedded calls with at most MaxContext fragments before
\* and after them.
AllContents ==
    FragTexts(MaxFrags)
    \cup SampleContents
    \cup {TwoCalls}
    \cup {a \o c \o b : a \in FragTexts(MaxContext),
                        c \in EmbeddedCalls,
                        b \in FragTexts(MaxContext)}

(***************************************************************************)
(* The script.                                                             *)
(***************************************************************************)
Line(kind, arg) == [kind |-> kind, arg |-> arg]

file_path == files[idx]

Zero == [p \in Paths |-> 0]

\* The state a run of the script starts in: either every listed file is
\* missing or holds one of the sample texts, or the first file holds any
\* generated text and the others are missing.
Init ==
    /\ \/ /\ exists \in SUBSET Paths
          /\ disk \in [Paths -> SampleContents \cup {<<>>}]
          /\ \A p \in Paths : (p \in exists) <=> (disk[p] # <<>>)
       \/ /\ exists = {files[1]}
          /\ \E c \in AllContents :
                 disk = [p \in Paths |-> IF p = files[1] THEN c ELSE <<>>]
    /\ idx = 1
    /\ pc = "loop"
    /\ content = <<>>
    /\ original_content = <<>>
    /\ fixed_count = 0
    /\ output = <<>>
    /\ reads = Zero
    /\ writes = Zero
    /\ start = disk
    /\ run = 1

\* CheckMissing with break for continue: the loop ends at a missing path.
CheckMissingBreak ==
    /\ pc = "loop"
    /\ idx <= Len(files)
    /\ file_path \notin exists
    /\ output' = Append(output, Line("SKIP", file_path))
    /\ idx' = Len(files) + 1
    /\ UNCHANGED <<exists, disk, pc, content, original_content, fixed_count,
                   reads, writes, start, run>>

\* Lines 39-42: the path does not exist; SKIP is printed and the loop goes on.
CheckMissing ==
    /\ pc = "loop"
    /\ idx <= Len(files)
    /\ file_path \notin exists
    /\ output' = Append(output, Line("SKIP", file_path))
    /\ idx' = idx + 1
    /\ UNCHANGED <<exists, disk, pc, content, original_content, fixed_count,
                   reads, writes, start, run>>

\* Lines 44-47: the file exists and is read whole, its line ends read as  \n  .
ReadFile ==
    /\ pc = "loop"
    /\ idx <= Len(files)
    /\ file_path \in exists
    /\ content' = ReadText(disk[file_path])
    /\ original_content' = ReadText(disk[file_path])
    /\ reads' = [reads EXCEPT ![file_path] = @ + 1]
    /\ pc' = "rule1"
    /\ UNCHANGED <<exists, disk, idx, fixed_count, output, writes, start, run>>

\* Lines 44-45: open or read raises; nothing catches it and the script ends.
ReadFail ==
    /\ pc = "loop"
    /\ idx <= Len(files)
    /\ file_path \in exists
    /\ pc' = "crashed"
    /\ UNCHANGED <<exists, disk, idx, content, original_content, fixed_count,
                   output, reads, writes, start, run>>

\* Lines 49-59: rule 1.
ApplyTwoParams ==
    /\ pc = "rule1"
    /\ content' = SubTwoParams(content, 1)
    /\ pc' = "rule2"
    /\ UNCHANGED <<exists, disk, idx, original_content, fixed_count, output,
                   reads, writes, start, run>>

\* Lines 61-70: rule 2.
ApplyOneParam ==
    /\ pc = "rule2"
    /\ content' = SubOneParam(content, 1)
    /\ pc' = "compare"
    /\ UNCHANGED <<exists, disk, idx, original_content, fixed_count, output,
                   reads, writes, start, run>>

\* Lines 72-74: the text changed; the file is opened for writing, written
\* and closed.
WriteBack ==
    /\ pc = "compare"
    /\ content # original_content
    /\ disk' = [disk EXCEPT ![file_path] = content]
    /\ writes' = [writes EXCEPT ![file_path] = @ + 1]
    /\ pc' = "written"
    /\ UNCHANGED <<exists, idx, content, original_content, fixed_count, output,
                   reads, start, run>>

\* CountFixed without the increment: the written file is not counted.
CountFixedSkipped ==
    /\ pc = "written"
    /\ pc' = "counted"
    /\ UNCHANGED <<exists, disk, idx, content, original_content, fixed_count,
                   output, reads, writes, start, run>>

\* Line 75: the written file is counted.
CountFixed ==
    /\ pc = "written"
    /\ fixed_count' = fixed_count + 1
    /\ pc' = "counted"
    /\ UNCHANGED <<exists, disk, idx, content, original_content, output,
                   reads, writes, start, run>>

\* Line 76: FIXED is printed and the loop goes on.
ReportFixed ==
    /\ pc = "counted"
    /\ output' = Append(output, Line("FIXED", file_path))
    /\ idx' = idx + 1
    /\ pc' = "loop"
    /\ UNCHANGED <<exists, disk, content, original_content, fixed_count,
                   reads, writes, start, run>>

\* WriteFail with lines 75-76 before the write: the file is counted and
\* reported, and then the write raises.
WriteFailReported ==
    /\ pc = "compare"
    /\ content # original_content
    /\ \/ UNCHANGED <<disk, writes>>
       \/ /\ \E n \in 0..(Len(content) - 1) :
                 disk' = [disk EXCEPT ![file_path] = SubSeq(content, 1, n)]
          /\ writes' = [writes EXCEPT ![file_path] = @ + 1]
    /\ fixed_count' = fixed_count + 1
    /\ output' = Append(output, Line("FIXED", file_path))
    /\ pc' = "crashed"
    /\ UNCHANGED <<exists, idx, content, original_content, reads, start, run>>

\* Lines 73-74: open for writing raises (the file is as it was), or the file
\* is opened, which empties it, and the write raises with none or only a
\* beginning of the new text in the file.  The script ends.
WriteFail ==
    /\ pc = "compare"
    /\ content # original_content
    /\ \/ UNCHANGED <<disk, writes>>
       \/ /\ \E n \in 0..(Len(content) - 1) :
                 disk' = [disk EXCEPT ![file_path] = SubSeq(content, 1, n)]
          /\ writes' = [writes EXCEPT ![file_path] = @ + 1]
    /\ pc' = "crashed"
    /\ UNCHANGED <<exists, idx, content, original_content, fixed_count,
                   output, reads, start, run>>

\* Lines 77-78: the text did not change.
NoChange ==
    /\ pc = "compare"
    /\ content = original_content
    /\ output' = Append(output, Line("NO CHANGE", file_path))
    /\ idx' = idx + 1
    /\ pc' = "loop"
    /\ UNCHANGED <<exists, disk, content, original_content, fixed_count,
                   reads, writes, start, run>>

\* Line 80: the loop is over; the total is printed.
Summary ==
    /\ pc = "loop"
    /\ idx > Len(files)
    /\ output' = Append(output, Line("TOTAL", fixed_count))
    /\ pc' = "done"
    /\ UNCHANGED <<exists, disk, idx, content, original_content, fixed_count,
                   reads, writes, start, run>>

\* The script is started a second time, over the files the first run left.
Rerun ==
    /\ pc = "done"
    /\ run = 1
    /\ run' = 2
    /\ idx' = 1
    /\ pc' = "loop"
    /\ content' = <<>>
    /\ original_content' = <<>>
    /\ fixed_count' = 0
    /\ output' = <<>>
    /\ reads' = Zero
    /\ writes' = Zero
    /\ start' = disk
    /\ UNCHANGED <<exists, disk>>

Next ==
    \/ CheckMissing
    \/ ReadFile
    \/ ReadFail
    \/ ApplyTwoParams
    \/ ApplyOneParam
    \/ WriteBack
    \/ CountFixed
    \/ ReportFixed
    \/ WriteFail
    \/ NoChange
    \/ Summary
    \/ Rerun

Spec == Init /\ [][Next]_vars

(***************************************************************************)
(* Notions the properties are stated with.                                 *)
(***************************************************************************)
Letters ==
    { "a", "b", "c", "d", "e", "f", "g", "h", "i", "j", "k", "l", "m",
      "n", "o", "p", "q", "r", "s", "t", "u", "v", "w", "x", "y", "z",
      "A", "B", "C", "D", "E", "F", "G", "H", "I", "J", "K", "L", "M",
      "N", "O", "P", "Q", "R", "S", "T", "U", "V", "W", "X", "Y", "Z" }

\* The characters a Java identifier may begin with.
NameChars == Letters \cup {"_", "$"}

\* Digits with at most one decimal point, and at least one digit.
IsNumericLiteral(w) ==
    /\ Len(w) > 0
    /\ \A k \in 1..Len(w) : w[k] \in NumChars
    /\ \E k \in 1..Len(w) : w[k] \in Digits
    /\ Cardinality({k \in 1..Len(w) : w[k] = "."}) <= 1

BoolLits == {TrueLit, FalseLit}

\* The text of a one-argument call and of a two-argument call.
OneArgCall(w) == SuperOpen \o w \o CloseStmt

TwoArgCall(w, sep, b) == SuperOpen \o w \o <<",">> \o sep \o b \o CloseStmt

\* The statements the spec asks for in their place.
TwoStatements(w) ==
    <<"s", "u", "p", "e", "r", "(", ")", ";">>
    \o <<"\n", " ", " ", " ", " ", " ", " ", " ", " ">>
    \o <<"s", "e", "t", "W", "e", "i", "g", "h", "t", "(">> \o w \o <<")", ";">>

ThreeStatements(w, b) ==
    TwoStatements(w)
    \o <<"\n", " ", " ", " ", " ", " ", " ", " ", " ">>
    \o <<"s", "e", "t", "E", "n", "a", "b", "l", "e", "d", "(">> \o b \o <<")", ";">>

Before(s, i) == SubSeq(s, 1, i - 1)

From(s, i) == SubSeq(s, i, Len(s))

\* A match of either pattern starts at position i of s.
MatchAt(s, i) == TwoParamsEnd(s, i) > 0 \/ OneParamEnd(s, i) > 0

HasMatch(s) == \E i \in 1..Len(s) : MatchAt(s, i)

\* The positions of s a match of either pattern starts at.
MatchStarts(s) == {i \in 1..Len(s) : MatchAt(s, i)}

\* The position after the match that starts at i.
MatchEnd(s, i) ==
    IF TwoParamsEnd(s, i) > 0 THEN TwoParamsEnd(s, i) ELSE OneParamEnd(s, i)

\* The positions of s inside the matches that start at the given positions.
CoveredBy(s, starts) == UNION {i..(MatchEnd(s, i) - 1) : i \in starts}

\* The positions of s inside a match of either pattern.
Covered(s) == CoveredBy(s, MatchStarts(s))

\* By how much the statements put in place of the match at i are longer
\* than the match.
Growth(s, i) ==
    IF TwoParamsEnd(s, i) > 0
    THEN Len(ThreeStatements(WeightGroup(s, i), EnabledGroup(s, i)))
             - (TwoParamsEnd(s, i) - i)
    ELSE Len(TwoStatements(WeightGroup(s, i))) - (OneParamEnd(s, i) - i)

\* The sum of the growths of the matches that start at the given positions.
RECURSIVE TotalGrowth(_, _)
TotalGrowth(s, positions) ==
    IF positions = {} THEN 0
    ELSE LET i == First(positions)
         IN  Growth(s, i) + TotalGrowth(s, positions \ {i})

\* Every character of s outside the matches that start at the given
\* positions stands in out as far to the right of its place in s as the
\* matches before it have grown, and out is as much longer than s as all the
\* matches have grown.
OutsideInPlace(s, out, starts) ==
    /\ \A j \in (1..Len(s)) \ CoveredBy(s, starts) :
           LET t == j + TotalGrowth(s, {i \in starts : i < j})
           IN  t <= Len(out) /\ out[t] = s[j]
    /\ Len(out) = Len(s) + TotalGrowth(s, starts)

\* No  super(  of s is followed by a digit or a point: s holds no call
\* either pattern could match, as in  super(someVariable);  and  super();
NoCandidate(s) ==
    \A i \in 1..Len(s) :
        HasAt(s, i, SuperOpen) =>
            ~(i + Len(SuperOpen) <= Len(s) /\ s[i + Len(SuperOpen)] \in NumChars)

\* The argument text of a call that starts at i: up to the next , or ) .
ArgEnd(s, i) ==
    LET stops == {j \in i..Len(s) : s[j] \in {",", ")"}}
    IN  IF stops = {} THEN Len(s) + 1 ELSE First(stops)

ArgAt(s, i) ==
    SubSeq(s, i + Len(SuperOpen), ArgEnd(s, i + Len(SuperOpen)) - 1)

KindCount(kind) == Cardinality({k \in 1..Len(output) : output[k].kind = kind})

RECURSIVE WritesUpTo(_)
WritesUpTo(n) == IF n = 0 THEN 0 ELSE writes[files[n]] + WritesUpTo(n - 1)

ChangedFiles == {p \in Paths : disk[p] # start[p]}

Outcome(k, kind) == k <= Len(output) /\ output[k] = Line(kind, files[k])

(***************************************************************************)
(* Properties.                                                             *)
(***************************************************************************)
\* C1: the transformation is idempotent: transforming the transformed text
\* of a file gives that text again; and a second run over the files a
\* completed first run left writes no file, reports NO CHANGE for every
\* existing file and a total of 0.
C1_Idempotent ==
    /\ pc = "rule1" =>
           Transform(Transform(original_content)) = Transform(original_content)
    /\ run = 2 =>
           /\ disk = start
           /\ \A p \in Paths : writes[p] = 0
           /\ fixed_count = 0
           /\ \A k \in 1..NumFiles :
                  (k < idx /\ files[k] \in exists) => Outcome(k, "NO CHANGE")
           /\ pc = "done" =>
                  /\ Len(output) = NumFiles + 1
                  /\ output[Len(output)] = Line("TOTAL", 0)

\* A second run has ended over a file the first run rewrote.
C1_Witness ==
    /\ run = 2
    /\ pc = "done"
    /\ \E p \in exists : HasAt(disk[p], 1, TwoStatements(<<"1">>))

\* C2: a missing path is reported SKIP, is neither read nor written nor
\* created and is not counted (the counter is the number of FIXED lines,
\* and one more between lines 75 and 76); every other path of the list is
\* read and reported FIXED or NO CHANGE; the total is the number of files
\* whose text was changed.
C2_MissingSkipped ==
    /\ \A k \in 1..NumFiles :
           files[k] \notin exists =>
               /\ reads[files[k]] = 0
               /\ writes[files[k]] = 0
               /\ disk[files[k]] = <<>>
               /\ k < idx => Outcome(k, "SKIP")
    /\ \A k \in 1..NumFiles :
           (k < idx /\ files[k] \in exists) =>
               /\ reads[files[k]] = 1
               /\ Outcome(k, "FIXED") \/ Outcome(k, "NO CHANGE")
    /\ fixed_count = KindCount("FIXED") + (IF pc = "counted" THEN 1 ELSE 0)
    /\ pc = "done" =>
           /\ Len(output) = NumFiles + 1
           /\ output[Len(output)] = Line("TOTAL", Cardinality(ChangedFiles))

\* A run has ended in which a file was fixed after a missing one was skipped.
C2_Witness ==
    /\ pc = "done"
    /\ run = 1
    /\ files[1] \notin exists
    /\ Outcome(1, "SKIP")
    /\ Outcome(2, "FIXED")

\* C3: a file is opened for writing exactly when its transformed text
\* differs from its text: a file with no match of either pattern is never
\* written, keeps its text and is reported NO CHANGE; a file with a match is
\* written once, with the transformed text, and reported FIXED.  (The files
\* handled so far are looked at between iterations: no step inside an
\* iteration changes what is said of them.)  The text of a file is the text
\* it held when the run began, carriage returns included.
C3_WriteIffChanged ==
    /\ \A p \in Paths :
           writes[p] > 0 => HasMatch(start[p]) /\ Transform(start[p]) # start[p]
    /\ \A k \in 1..NumFiles :
           (pc \in {"loop", "done", "crashed"} /\ k < idx /\ files[k] \in exists) =>
               IF HasMatch(start[files[k]])
               THEN /\ writes[files[k]] = 1
                    /\ disk[files[k]] = Transform(start[files[k]])
                    /\ disk[files[k]] # start[files[k]]
                    /\ Outcome(k, "FIXED")
               ELSE /\ writes[files[k]] = 0
                    /\ disk[files[k]] = start[files[k]]
                    /\ Transform(start[files[k]]) = start[files[k]]
                    /\ Outcome(k, "NO CHANGE")

\* C4: every character of the input outside the matches of rule 1 and
\* rule 2 is in the output, unchanged and in the same order: it stands as
\* far to the right of its place as the matches before it have grown, and
\* the output is as much longer as all matches have grown; an input in which
\* no super( is followed by a digit or a point is returned as it is.
C4_OutsidePreserved ==
    pc = "compare" =>
        /\ OutsideInPlace(original_content, content,
                          MatchStarts(original_content))
        /\ NoCandidate(original_content) => content = original_content

\* A text with a match between other characters has been transformed.
C4_Witness ==
    /\ pc = "compare"
    /\ content # original_content
    /\ 1 \notin Covered(original_content)
    /\ Len(original_content) \notin Covered(original_content)

\* C5: a two-argument call super(W, B); with W a numeric literal and B true
\* or false becomes super(); setWeight(W); setEnabled(B); in this order,
\* with what precedes and what follows it transformed on its own: rule 1
\* puts the three statements in its place and rule 2 leaves them as they are.
C5_TwoArgRewritten ==
    pc \in {"rule2", "compare"} =>
        LET s == original_content
        IN  \A i \in {j \in 1..Len(s) : HasAt(s, j, SuperOpen)} :
            \A m \in i..Len(s) :
            \A sep \in {<<>>, <<" ">>, <<"\n">>, <<VerticalTab>>} :
            \A b \in BoolLits :
                LET w == SubSeq(s, i + Len(SuperOpen), m)
                    call == TwoArgCall(w, sep, b)
                    pre == Before(s, i)
                    suf == From(s, i + Len(call))
                IN  (IsNumericLiteral(w) /\ HasAt(s, i, call)) =>
                        IF pc = "rule2"
                        THEN content = SubTwoParams(pre, 1)
                                 \o ThreeStatements(w, b) \o SubTwoParams(suf, 1)
                        ELSE content = Transform(pre)
                                 \o ThreeStatements(w, b) \o Transform(suf)

\* Both rules have run over a text that holds  super(1, false);  after
\* other characters.
C5_Witness ==
    /\ pc = "compare"
    /\ \E i \in 2..Len(original_content) :
           HasAt(original_content, i,
                 TwoArgCall(<<"1">>, <<" ">>, FalseLit))

\* C6: a one-argument call super(W); with W a numeric literal becomes
\* super(); setWeight(W); with no setEnabled call, with what precedes and
\* what follows it transformed on its own; rule 1 leaves the call as it is.
C6_OneArgRewritten ==
    pc \in {"rule2", "compare"} =>
        LET s == original_content
        IN  \A i \in {j \in 1..Len(s) : HasAt(s, j, SuperOpen)} :
            \A m \in i..Len(s) :
                LET w == SubSeq(s, i + Len(SuperOpen), m)
                    call == OneArgCall(w)
                    pre == Before(s, i)
                    suf == From(s, i + Len(call))
                IN  (IsNumericLiteral(w) /\ HasAt(s, i, call)) =>
                        IF pc = "rule2"
                        THEN content = SubTwoParams(pre, 1)
                                 \o call \o SubTwoParams(suf, 1)
                        ELSE content = Transform(pre)
                                 \o TwoStatements(w) \o Transform(suf)

\* Both rules have run over a text that holds  super(1);  between other
\* characters.
C6_Witness ==
    /\ pc = "compare"
    /\ \E i \in 2..Len(original_content) :
           /\ HasAt(original_content, i, OneArgCall(<<"1">>))
           /\ i + Len(OneArgCall(<<"1">>)) <= Len(original_content)

\* C7: a text all of whose super( calls have an argument that is not a
\* numeric literal (no digit, more than one decimal point, a sign, an
\* exponent) is matched by neither rule and left unchanged.
C7_OnlyNumericLiterals ==
    pc = "compare" =>
        ((\A i \in 1..Len(original_content) :
              HasAt(original_content, i, SuperOpen) =>
                  ~IsNumericLiteral(ArgAt(original_content, i)))
         => content = original_content)

\* C8: a text all of whose super( are the end of a longer identifier (a
\* name character stands right before them) is left unchanged.
C8_OtherCalleesUnchanged ==
    pc = "compare" =>
        ((\A i \in 1..Len(original_content) :
              HasAt(original_content, i, SuperOpen) =>
                  i > 1 /\ original_content[i - 1] \in NameChars)
         => content = original_content)

\* C9 as stated: while no I/O error occurs, at every point of the run the
\* fixed counter is the number of files written so far and the number of
\* FIXED lines printed so far.
C9_CounterAtEveryPoint ==
    pc # "crashed" =>
        /\ fixed_count = WritesUpTo(NumFiles)
        /\ fixed_count = KindCount("FIXED")

\* C9: while no I/O error occurs, the files are handled in list order, one
\* outcome line is printed per handled entry, in order, the files after the
\* current one are untouched, and the current one is until line 74 has
\* written it; the counter is one behind the number of files written
\* between lines 74 and 75, one ahead of the number of FIXED lines between
\* lines 75 and 76, and equal to both everywhere else, so between
\* iterations; the files written are the files whose text changed; the run
\* ends with the total, which is the number of files whose text changed.
C9_OrderedReport ==
    pc # "crashed" =>
        /\ idx \in 1..(NumFiles + 1)
        /\ Len(output) = (idx - 1) + (IF pc = "done" THEN 1 ELSE 0)
        /\ \A k \in 1..(idx - 1) :
               /\ output[k].arg = files[k]
               /\ output[k].kind \in {"SKIP", "FIXED", "NO CHANGE"}
        /\ \A k \in 1..NumFiles :
               k > idx =>
                   /\ reads[files[k]] = 0
                   /\ writes[files[k]] = 0
                   /\ disk[files[k]] = start[files[k]]
        /\ (pc \in {"loop", "rule1", "rule2", "compare"} /\ idx <= NumFiles) =>
               /\ writes[file_path] = 0
               /\ disk[file_path] = start[file_path]
               /\ reads[file_path] = (IF pc = "loop" THEN 0 ELSE 1)
        /\ pc \in {"written", "counted"} =>
               /\ reads[file_path] = 1
               /\ writes[file_path] = 1
               /\ disk[file_path] = content
               /\ content # original_content
        /\ fixed_count = WritesUpTo(NumFiles) - (IF pc = "written" THEN 1 ELSE 0)
        /\ fixed_count = KindCount("FIXED") + (IF pc = "counted" THEN 1 ELSE 0)
        /\ WritesUpTo(NumFiles) = Cardinality(ChangedFiles)
        /\ pc = "done" =>
               /\ idx = NumFiles + 1
               /\ output[Len(output)] = Line("TOTAL", Cardinality(ChangedFiles))

\* A second file has been written and is not yet counted, after a skipped
\* and a fixed one.
C9_Witness ==
    /\ pc = "written"
    /\ fixed_count = 1
    /\ WritesUpTo(NumFiles) = 2
    /\ KindCount("SKIP") = 1
    /\ KindCount("FIXED") = 1

\* C10: once a read or a write has failed at position idx the script does
\* nothing more: the files before that position are as their iterations
\* left them (rewritten, with the transformed text of what was read of them,
\* when they had a match, and as they were otherwise), the files after it
\* are neither read nor written, the output holds the outcome lines of the
\* positions before it and no total.
C10_CrashStops ==
    pc = "crashed" =>
        /\ ~ENABLED Next
        /\ idx \in 1..NumFiles
        /\ \A k \in 1..NumFiles :
               k < idx =>
                   LET t == ReadText(start[files[k]])
                   IN  IF HasMatch(t)
                       THEN /\ disk[files[k]] = Transform(t)
                            /\ disk[files[k]] # start[files[k]]
                       ELSE disk[files[k]] = start[files[k]]
        /\ \A k \in 1..NumFiles :
               k > idx =>
                   /\ reads[files[k]] = 0
                   /\ writes[files[k]] = 0
                   /\ disk[files[k]] = start[files[k]]
        /\ Len(output) = idx - 1
        /\ \A k \in 1..Len(output) :
               output[k].kind # "TOTAL" /\ output[k].arg = files[k]

\* An I/O error has ended a run after it fixed a file and before it reached
\* the last one.
C10_Witness ==
    /\ pc = "crashed"
    /\ idx > 1
    /\ idx < NumFiles
    /\ Outcome(1, "FIXED")

====
